---- MODULE Spec2Model ----
(***************************************************************************)
(* Model of mhealthx/io_data.py: five sequential procedures over a remote  *)
(* table service (synapseclient) and pandas DataFrames.                    *)
(*                                                                         *)
(* Every procedure is modelled step by step: one action per statement      *)
(* that calls the collaborator or may raise.  The collaborator calls of    *)
(* the running procedure are logged in `calls`; the remote service is the  *)
(* sequence of tables `remote`; the local output directory is `disk`.      *)
(***************************************************************************)
EXTENDS Integers, Sequences, FiniteSets, TLC

\* ------------------------------------------------------------------ bounds
MaxRows  == 2   \* rows of a table or frame
MaxShift == 1   \* first row label of a caller's frame is in 0..MaxShift
MaxFiles == 2   \* length of in_files

\* ------------------------------------------------------------- value sets
\* A cell is np.isnan's marker or a file identifier; the identifiers of a
\* table differ from cell to cell.
NaN == <<"nan">>
FileCell(i, j) == <<"file", i, j>>
\* The local path the service's download gives the file of a cell.
PathOf(cell) == <<"path", cell[2], cell[3]>>
\* The empty string appended when downloadTableFile gives no file info, and
\* Python's None.
EmptyString == <<"">>
None == <<>>
InFilePaths == {"p1", "p2"}
Project == "syn_project"
TableName == "name"
Credentials == {<<"", "">>, <<"user", "">>, <<"user", "pw">>}

\* range(n) as a sequence: <<0, ..., n-1>>
Range(n) == [i \in 1..n |-> i - 1]

\* A DataFrame: column names, row labels (the index), rows of cells.
DataFrame(columns, index, rows) ==
    [columns |-> columns, index |-> index, rows |-> rows]
NoData == DataFrame(<<>>, <<>>, <<>>)

\* table_data.shape[0]
NRows(df) == Len(df.index)

RECURSIVE SeqsUpTo(_, _)
SeqsUpTo(S, n) ==
    IF n = 0 THEN {<<>>}
    ELSE LET shorter == SeqsUpTo(S, n - 1)
         IN shorter \cup {Append(s, x) : s \in {t \in shorter : Len(t) = n - 1}, x \in S}

\* The tables the remote service may hold before the first call: columns
\* a and b, at most MaxRows rows, each row with a file in one column and
\* none in the other.
RowKinds == {"a", "b"}
InitialRows(kinds) ==
    [i \in 1..Len(kinds) |->
        IF kinds[i] = "a" THEN <<FileCell(i, 1), NaN>> ELSE <<NaN, FileCell(i, 2)>>]
RemoteTable(name, parent, columns, rows) ==
    [columns |-> columns, rows |-> rows, name |-> name, parent |-> parent]
InitialTables ==
    {RemoteTable("T1", Project, <<"a", "b">>, InitialRows(kinds)) :
        kinds \in SeqsUpTo(RowKinds, MaxRows)}

\* The frames a caller may pass: every cell holds a value; the row labels
\* are first, first+1, ... with first in 0..MaxShift.
FrameColumns == {<<"a", "b">>, <<"c">>}
Frame(columns, n, first) ==
    DataFrame(columns, [i \in 1..n |-> first + i - 1],
              [i \in 1..n |-> [j \in 1..Len(columns) |-> FileCell(i, j)]])
Frames ==
    {Frame(columns, n, first) : columns \in FrameColumns, n \in 0..MaxRows,
                                first \in 0..MaxShift}

ColumnSet(df) == {df.columns[j] : j \in 1..Len(df.columns)}

\* ------------------------------------------------------------------ state
VARIABLES
    remote,            \* the service's tables; a table's id is its position
    handles,           \* file handles the service has issued
    disk,              \* files in out_path
    op,                \* the running (or last) procedure
    pc,                \* its position
    args,              \* its arguments
    syn,               \* its session: synapseclient.Synapse()
    calls,             \* its collaborator calls, in order
    table_data,        \* local: the DataFrame
    download_limit,    \* local of read_synapse_table_files
    icol,              \* position in column_names / remove_columns / in_files
    irow,              \* row of the download loop
    files_per_column,
    downloaded_files,
    files_handles,
    schema,            \* the schema the procedure holds
    outcome,           \* "idle", "running", "returned" or "raised"
    error,             \* the class of the error raised
    result,            \* the value returned
    written            \* history: the frame the last write_synapse_table was
                       \* given and the id of the table it created

service == <<remote, handles, disk>>
locals == <<table_data, download_limit, icol, irow, files_per_column,
            downloaded_files, files_handles, schema>>
vars == <<remote, handles, disk, op, pc, args, syn, calls, table_data,
          download_limit, icol, irow, files_per_column, downloaded_files,
          files_handles, schema, outcome, error, result, written>>

NoSchema == [columns |-> <<>>, name |-> "", parent |-> "", id |-> 0]
NoSession == [loggedIn |-> FALSE, mode |-> "none"]
NotWritten == [id |-> 0, data |-> NoData]

Init ==
    /\ remote \in {<<t>> : t \in InitialTables}
    /\ handles = 0
    /\ disk = {}
    /\ op = "none"
    /\ pc = "idle"
    /\ args = <<>>
    /\ syn = NoSession
    /\ calls = <<>>
    /\ table_data = NoData
    /\ download_limit = None
    /\ icol = 0
    /\ irow = 0
    /\ files_per_column = <<>>
    /\ downloaded_files = <<>>
    /\ files_handles = <<>>
    /\ schema = NoSchema
    /\ outcome = "idle"
    /\ error = "none"
    /\ result = <<>>
    /\ written = NotWritten

\* ---------------------------------------------------------- common steps
\* The calls explored: one call of any procedure on the initial service,
\* and the round trip, a write_synapse_table that returned followed by a
\* read_synapse_table_files of the table it created.
CanEnter(name, a) ==
    \/ outcome = "idle"
    \/ /\ name = "read_synapse_table_files"
       /\ op = "write_synapse_table"
       /\ outcome = "returned"
       /\ a.synapse_table_id = written.id

\* A procedure is entered: fresh locals, a fresh session object.
Enter(name, a, df) ==
    /\ pc = "idle"
    /\ CanEnter(name, a)
    /\ op' = name
    /\ args' = a
    /\ pc' = "login"
    /\ syn' = NoSession
    /\ calls' = <<>>
    /\ table_data' = df
    /\ download_limit' = None
    /\ icol' = 0
    /\ irow' = 0
    /\ files_per_column' = <<>>
    /\ downloaded_files' = <<>>
    /\ files_handles' = <<>>
    /\ schema' = NoSchema
    /\ outcome' = "running"
    /\ error' = "none"
    /\ result' = <<>>
    /\ UNCHANGED <<service, written>>

\* An exception caught and dropped: the procedure goes on where it was.
RaiseCaught(kind) ==
    /\ pc' = pc
    /\ outcome' = outcome
    /\ error' = kind
    /\ result' = <<>>

\* An exception leaves the procedure: nothing is caught, nothing undone.
Raise(kind) ==
    /\ pc' = "idle"
    /\ outcome' = "raised"
    /\ error' = kind
    /\ result' = <<>>

Return(value) ==
    /\ pc' = "idle"
    /\ outcome' = "returned"
    /\ error' = "none"
    /\ result' = value

\* if username or password: ...
LoginModeEither(username, password) ==
    IF username # "" \/ password # "" THEN "credentials" ELSE "cached"

\* if username and password: syn.login(username, password) else: syn.login()
LoginMode(username, password) ==
    IF username # "" /\ password # "" THEN "credentials" ELSE "cached"

AfterLogin ==
    CASE op = "read_synapse_table_files" -> "get"
      [] op = "copy_synapse_table" -> "query"
      [] op = "write_synapse_table" -> "schema"
      [] op = "files_to_synapse_table" -> "upload"
      [] op = "concatenate_tables_to_synapse_table" -> "concat"

Login ==
    /\ pc = "login"
    /\ LET mode == LoginMode(args.username, args.password)
       IN \E ok \in BOOLEAN :
            /\ calls' = Append(calls, [mode |-> mode, ok |-> ok, fn |-> "login"])
            /\ IF ok
               THEN /\ syn' = [loggedIn |-> TRUE, mode |-> mode]
                    /\ pc' = AfterLogin
                    /\ UNCHANGED <<outcome, error, result>>
               ELSE /\ Raise("AuthenticationError")
                    /\ UNCHANGED syn
    /\ UNCHANGED <<written, service, op, args, locals>>

\* ------------------------------------------- read_synapse_table_files
\* download_limit is None or an int, here <<n>>.
IsInt(x) == Len(x) = 1
IntOf(x) == x[1]
DownloadLimits == {None} \cup {<<n>> : n \in 0..(MaxRows + 1)}
ColumnNameLists == {<<>>, <<"a">>, <<"a", "b">>, <<"c">>}
\* Table ids a caller may name: the tables of the service and one that
\* does not exist (0).
TableIds == 0..Len(remote)
TableExists(id) == id \in 1..Len(remote)

\* A query that leaves out the table's last row.
QueryResultShort(id) ==
    LET n == Len(remote[id].rows)
    IN DataFrame(remote[id].columns, Range(IF n > 0 THEN n - 1 ELSE 0),
                 SubSeq(remote[id].rows, 1, n - 1))

\* results.asDataFrame(): the table's columns and rows, rows addressable
\* by position 0..N-1.
QueryResult(id) ==
    DataFrame(remote[id].columns, Range(Len(remote[id].rows)), remote[id].rows)

\* The positions of the columns named `name`, of the rows labelled `label`.
ColumnPositions(df, name) == {j \in 1..Len(df.columns) : df.columns[j] = name}
RowPositions(df, label) == {i \in 1..Len(df.index) : df.index[i] = label}
\* column_data[irow] for column_data = table_data[column_name]
CellAt(df, name, label) ==
    LET j == CHOOSE j \in ColumnPositions(df, name) : TRUE
        i == CHOOSE i \in RowPositions(df, label) : TRUE
    IN df.rows[i][j]
\* np.isnan(x)
IsNan(x) == x = NaN

read_Enter ==
    \E id \in TableIds, column_names \in ColumnNameLists,
       limit \in DownloadLimits, cred \in Credentials :
        Enter("read_synapse_table_files",
              [download_limit |-> limit, synapse_table_id |-> id,
               username |-> cred[1], password |-> cred[2],
               column_names |-> column_names], NoData)

\* schema = syn.get(synapse_table_id)
read_Get ==
    /\ op = "read_synapse_table_files" /\ pc = "get"
    /\ LET id == args.synapse_table_id
           ok == TableExists(id)
       IN /\ calls' = Append(calls, [id |-> id, ok |-> ok, fn |-> "get"])
          /\ IF ok
             THEN /\ schema' = [columns |-> remote[id].columns, name |-> remote[id].name,
                                parent |-> remote[id].parent, id |-> id]
                  /\ pc' = "query"
                  /\ UNCHANGED <<outcome, error, result>>
             ELSE /\ Raise("NotFound")
                  /\ UNCHANGED schema
    /\ UNCHANGED <<written, service, op, args, syn, table_data, download_limit, icol,
                   irow, files_per_column, downloaded_files, files_handles>>

\* The first column to visit, or the return when column_names is empty.
FirstColumnStep(column_names) == IF column_names # <<>> THEN "column" ELSE "return"
\* The limit ignored: every row is visited.
EffectiveLimitAllRows(limit, df) == NRows(df)

\* if type(download_limit) != int: download_limit = table_data.shape[0]
EffectiveLimit(limit, df) == IF ~IsInt(limit) THEN NRows(df) ELSE IntOf(limit)

\* results = syn.tableQuery(...); table_data = results.asDataFrame();
\* downloaded_files = []; the download_limit default.
read_Query ==
    /\ op = "read_synapse_table_files" /\ pc = "query"
    /\ LET id == args.synapse_table_id
       IN /\ calls' = Append(calls, [id |-> id, ok |-> TRUE, fn |-> "tableQuery"])
          /\ table_data' = QueryResult(id)
          /\ downloaded_files' = <<>>
          /\ download_limit' =
                IF args.column_names # <<>>
                THEN <<EffectiveLimit(args.download_limit, QueryResult(id))>>
                ELSE args.download_limit
          /\ icol' = 1
          /\ pc' = FirstColumnStep(args.column_names)
    /\ UNCHANGED <<written, service, op, args, syn, irow, files_per_column,
                   files_handles, schema, outcome, error, result>>

\* for column_name in column_names: column_data = table_data[column_name]
read_Column ==
    /\ op = "read_synapse_table_files" /\ pc = "column"
    /\ IF icol > Len(args.column_names)
       THEN /\ pc' = "return"
            /\ UNCHANGED <<irow, files_per_column, outcome, error, result>>
       ELSE IF ColumnPositions(table_data, args.column_names[icol]) = {}
       THEN /\ Raise("MissingColumn")
            /\ UNCHANGED <<irow, files_per_column>>
       ELSE /\ files_per_column' = <<>>
            /\ irow' = 0
            /\ pc' = "row"
            /\ UNCHANGED <<outcome, error, result>>
    /\ UNCHANGED <<written, service, op, args, syn, calls, table_data, download_limit,
                   icol, downloaded_files, files_handles, schema>>

\* '' appended for a missing cell, as for a download without file info.
MissingEntryEmpty == EmptyString

\* What one pass of the row loop appends for a cell that is NaN.
MissingEntry == None
\* What it appends after a download: fileinfo['path'], or '' without fileinfo.
DownloadEntry(fileinfo) == IF fileinfo # <<>> THEN fileinfo ELSE EmptyString

\* for irow in range(download_limit): one pass, or the end of the loop.
read_Row ==
    /\ op = "read_synapse_table_files" /\ pc = "row"
    /\ LET column_name == args.column_names[icol] IN
       IF irow >= IntOf(download_limit)
       THEN \* downloaded_files.append(files_per_column)
            /\ downloaded_files' = Append(downloaded_files, files_per_column)
            /\ icol' = icol + 1
            /\ pc' = "column"
            /\ UNCHANGED <<disk, calls, irow, files_per_column, outcome, error, result>>
       ELSE IF RowPositions(table_data, irow) = {}
       THEN \* column_data[irow] past the last row
            /\ Raise("KeyError")
            /\ UNCHANGED <<disk, calls, icol, irow, files_per_column, downloaded_files>>
       ELSE IF IsNan(CellAt(table_data, column_name, irow))
       THEN /\ files_per_column' = Append(files_per_column, MissingEntry)
            /\ irow' = irow + 1
            /\ UNCHANGED <<disk, calls, icol, downloaded_files, pc, outcome, error, result>>
       ELSE \* fileinfo = syn.downloadTableFile(schema, rowId=irow, column=column_name, ...)
            \/ \E fileinfo \in {PathOf(CellAt(table_data, column_name, irow)), <<>>} :
                 /\ calls' = Append(calls, [ok |-> TRUE, fn |-> "downloadTableFile",
                                            fileinfo |-> fileinfo, rowId |-> irow,
                                            column |-> column_name])
                 /\ disk' = IF fileinfo # <<>> THEN disk \cup {fileinfo} ELSE disk
                 /\ files_per_column' = Append(files_per_column, DownloadEntry(fileinfo))
                 /\ irow' = irow + 1
                 /\ UNCHANGED <<icol, downloaded_files, pc, outcome, error, result>>
            \/ /\ calls' = Append(calls, [ok |-> FALSE, fn |-> "downloadTableFile",
                                            fileinfo |-> <<>>, rowId |-> irow,
                                            column |-> column_name])
               /\ Raise("TransferError")
               /\ UNCHANGED <<disk, icol, irow, files_per_column, downloaded_files>>
    /\ UNCHANGED <<written, remote, handles, op, args, syn, table_data, download_limit,
                   files_handles, schema>>

\* return table_data, downloaded_files
read_Return ==
    /\ op = "read_synapse_table_files" /\ pc = "return"
    /\ Return(<<table_data, downloaded_files>>)
    /\ UNCHANGED <<written, service, op, args, syn, calls, locals>>

\* --------------------------------------- storing a DataFrame as a table
\* table_data.index = range(table_data.shape[0])
Reindex(df) == DataFrame(df.columns, Range(NRows(df)), df.rows)

\* A schema that leaves out the frame's first column.
SchemaColumnsShort(df) == IF df.columns = <<>> THEN <<>> ELSE Tail(df.columns)

\* as_table_columns(table_data): one column of the schema per column of
\* the frame, under its name.
SchemaColumns(df) == df.columns

\* schema = Schema(name=table_name, columns=as_table_columns(table_data),
\*                 parent=synapse_project_id, ...): as_table_columns may raise.
MakeSchema(df) ==
    \/ /\ calls' = Append(calls, [columns |-> df.columns, ok |-> TRUE,
                                  fn |-> "as_table_columns"])
       /\ schema' = [columns |-> SchemaColumns(df), name |-> args.table_name,
                     parent |-> args.synapse_project_id, id |-> 0]
       /\ pc' = "store"
       /\ UNCHANGED <<outcome, error, result>>
    \/ /\ calls' = Append(calls, [columns |-> df.columns, ok |-> FALSE,
                                  fn |-> "as_table_columns"])
       /\ Raise("SchemaInferenceError")
       /\ UNCHANGED schema

\* syn.store(Table(schema, table_data)): a new table of the service, or an error.
StoreTable ==
    /\ pc = "store"
    /\ op \in {"copy_synapse_table", "write_synapse_table",
               "concatenate_tables_to_synapse_table"}
    /\ \/ /\ calls' = Append(calls, [schema |-> schema, data |-> table_data,
                                     kind |-> "Table", ok |-> TRUE, fn |-> "store"])
          /\ remote' = Append(remote, RemoteTable(schema.name, schema.parent,
                                                  schema.columns, table_data.rows))
          /\ pc' = "return"
          /\ UNCHANGED <<outcome, error, result>>
       \/ /\ calls' = Append(calls, [schema |-> schema, data |-> table_data,
                                     kind |-> "Table", ok |-> FALSE, fn |-> "store"])
          /\ Raise("TransferError")
          /\ UNCHANGED remote
    /\ UNCHANGED <<written, handles, disk, op, args, syn, locals>>

\* ---------------------------------------------------- copy_synapse_table
RemoveColumnLists == {<<>>, <<"a">>, <<"b">>, <<"a", "b">>, <<"c">>, <<"a", "a">>}

copy_Enter ==
    \E id \in TableIds, remove_columns \in RemoveColumnLists, cred \in Credentials :
        Enter("copy_synapse_table",
              [synapse_table_id |-> id, username |-> cred[1], password |-> cred[2],
               table_name |-> TableName, synapse_project_id |-> Project,
               remove_columns |-> remove_columns], NoData)

\* results = syn.tableQuery(...); table_data = results.asDataFrame()
copy_Query ==
    /\ op = "copy_synapse_table" /\ pc = "query"
    /\ LET id == args.synapse_table_id
           ok == TableExists(id)
       IN /\ calls' = Append(calls, [id |-> id, ok |-> ok, fn |-> "tableQuery"])
          /\ IF ok
             THEN /\ table_data' = QueryResult(id)
                  /\ icol' = 1
                  /\ pc' = "remove"
                  /\ UNCHANGED <<outcome, error, result>>
             ELSE /\ Raise("NotFound")
                  /\ UNCHANGED <<table_data, icol>>
    /\ UNCHANGED <<written, service, op, args, syn, download_limit, irow,
                   files_per_column, downloaded_files, files_handles, schema>>

\* del on the first column, whatever the name.
DelFirstColumn(df, name) ==
    DataFrame(Tail(df.columns), df.index, [i \in 1..Len(df.rows) |-> Tail(df.rows[i])])

\* del table_data[remove_column]
DelColumn(df, name) ==
    LET keep == {j \in 1..Len(df.columns) : df.columns[j] # name}
        pos == [k \in 1..Cardinality(keep) |->
                  CHOOSE j \in keep : Cardinality({m \in keep : m < j}) = k - 1]
    IN DataFrame([k \in 1..Cardinality(keep) |-> df.columns[pos[k]]],
                 df.index,
                 [i \in 1..Len(df.rows) |->
                    [k \in 1..Cardinality(keep) |-> df.rows[i][pos[k]]]])

\* if remove_columns: for remove_column in remove_columns: del ...
copy_Remove ==
    /\ op = "copy_synapse_table" /\ pc = "remove"
    /\ IF icol > Len(args.remove_columns)
       THEN /\ pc' = "schema"
            /\ UNCHANGED <<table_data, icol, outcome, error, result>>
       ELSE IF ColumnPositions(table_data, args.remove_columns[icol]) = {}
       THEN /\ Raise("MissingColumn")
            /\ UNCHANGED <<table_data, icol>>
       ELSE /\ table_data' = DelColumn(table_data, args.remove_columns[icol])
            /\ icol' = icol + 1
            /\ UNCHANGED <<pc, outcome, error, result>>
    /\ UNCHANGED <<written, service, op, args, syn, calls, download_limit, irow,
                   files_per_column, downloaded_files, files_handles, schema>>

\* The frame copy_synapse_table derives its schema from and stores.
copy_Prepared(df) == Reindex(df)

copy_Schema ==
    /\ op = "copy_synapse_table" /\ pc = "schema"
    /\ table_data' = copy_Prepared(table_data)
    /\ MakeSchema(copy_Prepared(table_data))
    /\ UNCHANGED <<written, service, op, args, syn, download_limit, icol, irow,
                   files_per_column, downloaded_files, files_handles>>

\* return table_data, table_name, synapse_project_id
copy_Return ==
    /\ op = "copy_synapse_table" /\ pc = "return"
    /\ Return(<<table_data, args.table_name, args.synapse_project_id>>)
    /\ UNCHANGED <<written, service, op, args, syn, calls, locals>>

\* --------------------------------------------------- write_synapse_table
write_Enter ==
    \E frame \in Frames, cred \in Credentials :
        Enter("write_synapse_table",
              [table_data |-> frame, username |-> cred[1], password |-> cred[2],
               table_name |-> TableName, synapse_project_id |-> Project], frame)

\* write_synapse_table without line 223.
write_NotReindexed(df) == df

\* The frame write_synapse_table derives its schema from and stores.
write_Prepared(df) == Reindex(df)

write_Schema ==
    /\ op = "write_synapse_table" /\ pc = "schema"
    /\ table_data' = write_Prepared(table_data)
    /\ MakeSchema(write_Prepared(table_data))
    /\ UNCHANGED <<written, service, op, args, syn, download_limit, icol, irow,
                   files_per_column, downloaded_files, files_handles>>

\* The procedure ends without a return statement.
write_Return ==
    /\ op = "write_synapse_table" /\ pc = "return"
    /\ Return(None)
    /\ written' = [id |-> Len(remote), data |-> args.table_data]
    /\ UNCHANGED <<service, op, args, syn, calls, locals>>

\* ------------------------------------------------ files_to_synapse_table
InFileLists == SeqsUpTo(InFilePaths, MaxFiles)
FileColumnName == "fileID"

files_Enter ==
    \E in_files \in InFileLists, cred \in Credentials :
        Enter("files_to_synapse_table",
              [username |-> cred[1], password |-> cred[2],
               column_name |-> FileColumnName, table_name |-> TableName,
               synapse_project_id |-> Project, in_files |-> in_files], NoData)

\* files_handles.insert(0, [file_handle['id']])
PrependHandle(list, id) == <<<<id>>>> \o list

\* files_handles.append([file_handle['id']])
AppendHandle(list, id) == Append(list, <<id>>)

\* for in_file in in_files: file_handle = syn._chunkedUploadFile(in_file)
files_Upload ==
    /\ op = "files_to_synapse_table" /\ pc = "upload"
    /\ IF icol >= Len(args.in_files)
       THEN /\ pc' = "store_schema"
            /\ UNCHANGED <<handles, calls, icol, files_handles, outcome, error, result>>
       ELSE LET in_file == args.in_files[icol + 1] IN
            \/ LET id == handles + 1 IN
                 /\ calls' = Append(calls, [id |-> id, ok |-> TRUE,
                                            fn |-> "_chunkedUploadFile", path |-> in_file])
                 /\ handles' = id
                 /\ files_handles' = AppendHandle(files_handles, id)
                 /\ icol' = icol + 1
                 /\ UNCHANGED <<pc, outcome, error, result>>
            \/ /\ calls' = Append(calls, [id |-> 0, ok |-> FALSE,
                                          fn |-> "_chunkedUploadFile", path |-> in_file])
               /\ Raise("TransferError")
               /\ UNCHANGED <<handles, icol, files_handles>>
    /\ UNCHANGED <<written, remote, disk, op, args, syn, table_data, download_limit, irow,
                   files_per_column, downloaded_files, schema>>

\* new_column_header = Column(name=column_name, columnType='FILEHANDLEID')
NewColumnHeader == [name |-> args.column_name, columnType |-> "FILEHANDLEID"]

\* schema = syn.store(Schema(name=table_name, columns=[new_column_header],
\*                           parent=synapse_project_id))
files_StoreSchema ==
    /\ op = "files_to_synapse_table" /\ pc = "store_schema"
    /\ LET columns == <<NewColumnHeader>> IN
       \/ /\ calls' = Append(calls, [columns |-> columns, kind |-> "Schema",
                                     ok |-> TRUE, fn |-> "store"])
          /\ remote' = Append(remote, RemoteTable(args.table_name, args.synapse_project_id,
                                                  <<NewColumnHeader.name>>, <<>>))
          /\ schema' = [columns |-> <<NewColumnHeader.name>>, name |-> args.table_name,
                        parent |-> args.synapse_project_id, id |-> Len(remote) + 1]
          /\ pc' = "store_rows"
          /\ UNCHANGED <<outcome, error, result>>
       \/ /\ calls' = Append(calls, [columns |-> columns, kind |-> "Schema",
                                     ok |-> FALSE, fn |-> "store"])
          /\ Raise("TransferError")
          /\ UNCHANGED <<remote, schema>>
    /\ UNCHANGED <<written, handles, disk, op, args, syn, table_data, download_limit, icol, irow,
                   files_per_column, downloaded_files, files_handles>>

\* rows=[Row(r) for r in files_handles]
RowSetRows(list) == [i \in 1..Len(list) |-> <<<<"handle", list[i][1]>>>>]

\* syn.store(RowSet(columns=[new_column_header], schema=schema, rows=...))
files_StoreRows ==
    /\ op = "files_to_synapse_table" /\ pc = "store_rows"
    /\ LET rows == RowSetRows(files_handles) IN
       \/ /\ calls' = Append(calls, [rows |-> rows, schema |-> schema,
                                     kind |-> "RowSet", ok |-> TRUE, fn |-> "store"])
          /\ remote' = [remote EXCEPT ![schema.id].rows = remote[schema.id].rows \o rows]
          /\ pc' = "return"
          /\ UNCHANGED <<outcome, error, result>>
       \/ /\ calls' = Append(calls, [rows |-> rows, schema |-> schema,
                                     kind |-> "RowSet", ok |-> FALSE, fn |-> "store"])
          /\ Raise("TransferError")
          /\ UNCHANGED remote
    /\ UNCHANGED <<written, handles, disk, op, args, syn, locals>>

\* The procedure ends without a return statement.
files_Return ==
    /\ op = "files_to_synapse_table" /\ pc = "return"
    /\ Return(None)
    /\ UNCHANGED <<written, service, op, args, syn, calls, locals>>

\* ------------------------------------ concatenate_tables_to_synapse_table
\* The lists of frames a caller may pass: one frame, or two whose column
\* names differ.
FrameLists ==
    {<<f>> : f \in Frames} \cup
    {pair \in {<<f, g>> : f \in Frames, g \in Frames} :
        ColumnSet(pair[1]) \cap ColumnSet(pair[2]) = {}}

LabelSet(df) == {df.index[i] : i \in 1..Len(df.index)}

RECURSIVE SortedSeq(_)
SortedSeq(S) ==
    IF S = {} THEN <<>>
    ELSE LET least == CHOOSE x \in S : \A y \in S : x <= y
         IN <<least>> \o SortedSeq(S \ {least})

\* The index of pd.concat(frames, axis=1): the frames' common index when they
\* all carry the same one, else the sorted union of their labels.
ConcatIndex(frames) ==
    IF \A k \in 1..Len(frames) : frames[k].index = frames[1].index
    THEN frames[1].index
    ELSE SortedSeq(UNION {LabelSet(frames[k]) : k \in 1..Len(frames)})

\* A frame's row for a label, NaN in every column when it has no such row.
RowFor(df, label) ==
    IF RowPositions(df, label) = {}
    THEN [j \in 1..Len(df.columns) |-> NaN]
    ELSE df.rows[CHOOSE i \in RowPositions(df, label) : TRUE]

RECURSIVE JoinColumns(_, _)
JoinColumns(frames, k) ==
    IF k > Len(frames) THEN <<>> ELSE frames[k].columns \o JoinColumns(frames, k + 1)

RECURSIVE JoinRow(_, _, _)
JoinRow(frames, label, k) ==
    IF k > Len(frames) THEN <<>>
    ELSE RowFor(frames[k], label) \o JoinRow(frames, label, k + 1)

RECURSIVE StackRows(_, _, _)
StackRows(frames, k, before) ==
    IF k > Len(frames) THEN <<>>
    ELSE LET f == frames[k]
             after == Len(JoinColumns(frames, k + 1))
         IN [i \in 1..Len(f.rows) |->
                [j \in 1..before |-> NaN] \o f.rows[i] \o [j \in 1..after |-> NaN]]
            \o StackRows(frames, k + 1, before + Len(f.columns))

RECURSIVE StackIndex(_, _)
StackIndex(frames, k) ==
    IF k > Len(frames) THEN <<>> ELSE frames[k].index \o StackIndex(frames, k + 1)

\* pd.concat(frames): axis=0, the frames' rows one below the other.
ConcatAxis0(frames) ==
    DataFrame(JoinColumns(frames, 1), StackIndex(frames, 1), StackRows(frames, 1, 0))

\* table_data = pd.concat(frames, axis=1)
Concat(frames) ==
    LET index == ConcatIndex(frames)
    IN DataFrame(JoinColumns(frames, 1), index,
                 [i \in 1..Len(index) |-> JoinRow(frames, index[i], 1)])

concat_Enter ==
    \E frames \in FrameLists, cred \in Credentials :
        Enter("concatenate_tables_to_synapse_table",
              [username |-> cred[1], password |-> cred[2], table_name |-> TableName,
               synapse_project_id |-> Project, frames |-> frames], NoData)

concat_Concat ==
    /\ op = "concatenate_tables_to_synapse_table" /\ pc = "concat"
    /\ table_data' = Concat(args.frames)
    /\ pc' = "schema"
    /\ UNCHANGED <<written, service, op, args, syn, calls, download_limit, icol, irow,
                   files_per_column, downloaded_files, files_handles, schema,
                   outcome, error, result>>

\* The frame concatenate_tables_to_synapse_table derives its schema from and
\* stores: table_data as pd.concat left it.
concat_Prepared(df) == df

concat_Schema ==
    /\ op = "concatenate_tables_to_synapse_table" /\ pc = "schema"
    /\ table_data' = concat_Prepared(table_data)
    /\ MakeSchema(concat_Prepared(table_data))
    /\ UNCHANGED <<written, service, op, args, syn, download_limit, icol, irow,
                   files_per_column, downloaded_files, files_handles>>

\* return table_data, synapse_project_id
concat_Return ==
    /\ op = "concatenate_tables_to_synapse_table" /\ pc = "return"
    /\ Return(<<table_data, args.synapse_project_id>>)
    /\ UNCHANGED <<written, service, op, args, syn, calls, locals>>

Next ==
    \/ read_Enter
    \/ Login
    \/ read_Get
    \/ read_Query
    \/ read_Column
    \/ read_Row
    \/ read_Return
    \/ StoreTable
    \/ copy_Enter
    \/ copy_Query
    \/ copy_Remove
    \/ copy_Schema
    \/ copy_Return
    \/ write_Enter
    \/ write_Schema
    \/ write_Return
    \/ files_Enter
    \/ files_Upload
    \/ files_StoreSchema
    \/ files_StoreRows
    \/ files_Return
    \/ concat_Enter
    \/ concat_Concat
    \/ concat_Schema
    \/ concat_Return

Spec == Init /\ [][Next]_vars

\* ------------------------------------------------------------ properties
\* The store calls of the running procedure, and those of a table.
StoreCalls == {n \in 1..Len(calls) : calls[n].fn = "store"}
TableStores == {n \in StoreCalls : calls[n].kind = "Table"}
Finished == pc = "idle" /\ outcome \in {"returned", "raised"}
Returned(name) == op = name /\ pc = "idle" /\ outcome = "returned"
IsClean(index) == \A i \in 1..Len(index) : index[i] = i - 1

Stored == remote[Len(remote)]
TwoFrames == op = "concatenate_tables_to_synapse_table" /\ Len(args.frames) = 2

ReadReturned == Returned("read_synapse_table_files")
Downloads == {n \in 1..Len(calls) : calls[n].fn = "downloadTableFile"}
\* The rows the caller asked to resolve: row_limit, or every row.
RowLimit ==
    IF args.download_limit = None THEN Len(remote[args.synapse_table_id].rows)
    ELSE args.download_limit[1]

\* C3: a read_synapse_table_files that returns with column_names non-empty
\* returns one sequence per name, in the order of column_names, each of
\* length row_limit (the row count when row_limit is None): sequence k has
\* None exactly where column k has no file.
C3_OneSequencePerColumn ==
    (ReadReturned /\ args.column_names # <<>>)
    => /\ Len(result[2]) = Len(args.column_names)
       /\ \A k \in 1..Len(args.column_names) :
             /\ Len(result[2][k]) = RowLimit
             /\ \A i \in 1..RowLimit :
                   LET j == CHOOSE j \in 1..Len(remote[args.synapse_table_id].columns) :
                                remote[args.synapse_table_id].columns[j] = args.column_names[k]
                   IN (result[2][k][i] = None)
                        <=> (remote[args.synapse_table_id].rows[i][j] = NaN)

\* Two columns were resolved with an integer row_limit below the row count.
C3_Witness ==
    /\ ReadReturned
    /\ Len(args.column_names) = 2
    /\ args.download_limit # None
    /\ RowLimit >= 1
    /\ RowLimit < Len(remote[args.synapse_table_id].rows)

\* A zero-row table read with row_limit = 0: every sequence is empty.
C3_WitnessZeroRows ==
    /\ ReadReturned
    /\ args.column_names # <<>>
    /\ args.download_limit = <<0>>
    /\ Len(remote[args.synapse_table_id].rows) = 0
    /\ \A k \in 1..Len(result[2]) : result[2][k] = <<>>

\* C4: for every requested column c and row i below row_limit, the entry is
\* None exactly when cell (i, c) is missing, and then no download call was
\* made for (i, c); otherwise exactly one download call was made for (i, c)
\* and the entry is the path it returned, or the empty string when it
\* returned no file info.
C4_EntryPerCell ==
    (ReadReturned /\ args.column_names # <<>>)
    => \A k \in 1..Len(args.column_names) : \A i \in 0..(RowLimit - 1) :
         LET c == args.column_names[k]
             t == remote[args.synapse_table_id]
             j == CHOOSE j \in 1..Len(t.columns) : t.columns[j] = c
             missing == t.rows[i + 1][j] = NaN
             entry == result[2][k][i + 1]
             made == {n \in Downloads : calls[n].rowId = i /\ calls[n].column = c}
         IN /\ (entry = None) <=> missing
            /\ missing => made = {}
            /\ ~missing =>
                 /\ Cardinality(made) = 1
                 /\ \A n \in made :
                       /\ calls[n].ok
                       /\ calls[n].fileinfo # <<>>
                            => (entry = calls[n].fileinfo /\ entry = PathOf(t.rows[i + 1][j]))
                       /\ calls[n].fileinfo = <<>> => entry = EmptyString

\* A read returned after a missing cell, a download that gave a path and a
\* download that gave no file info.
C4_Witness ==
    /\ ReadReturned
    /\ \E k \in 1..Len(result[2]) : \E i \in 1..Len(result[2][k]) : result[2][k][i] = None
    /\ \E n \in Downloads : calls[n].ok /\ calls[n].fileinfo # <<>>
    /\ \E n \in Downloads : calls[n].ok /\ calls[n].fileinfo = <<>>

\* What C5 says of one step of read_synapse_table_files.
C5_NoColumnsStep ==
    (op' = "read_synapse_table_files" /\ args'.column_names = <<>>)
    => /\ disk' = disk
       /\ \A n \in 1..Len(calls') : calls'[n].fn # "downloadTableFile"
       /\ (pc' = "idle" /\ outcome' = "returned")
            => /\ result'[2] = <<>>
               /\ result'[1].columns = remote'[args'.synapse_table_id].columns
               /\ result'[1].rows = remote'[args'.synapse_table_id].rows
               /\ NRows(result'[1]) = Len(remote'[args'.synapse_table_id].rows)

\* C5: with column_names empty, no step of read_synapse_table_files issues
\* a download call or changes the output directory, and the call returns
\* the whole queried table (its columns and all its rows) with an empty
\* list of downloaded-file sequences, whatever download_limit is.
C5_NoColumns == [][C5_NoColumnsStep]_vars

\* A read with no column names returned a table of MaxRows rows, with an
\* integer download_limit.
C5_Witness ==
    /\ ReadReturned
    /\ args.column_names = <<>>
    /\ args.download_limit # None
    /\ NRows(result[1]) = MaxRows

\* The names of remove_columns, and whether one of them is absent from the
\* source table or named a second time.
RemoveSet == {args.remove_columns[k] : k \in 1..Len(args.remove_columns)}
SourceColumns == remote[args.synapse_table_id].columns
SomeNameAbsent ==
    \E k \in 1..Len(args.remove_columns) :
        \/ \A j \in 1..Len(SourceColumns) : SourceColumns[j] # args.remove_columns[k]
        \/ \E m \in 1..(k - 1) : args.remove_columns[m] = args.remove_columns[k]
Queried == \E n \in 1..Len(calls) : calls[n].fn = "tableQuery" /\ calls[n].ok

\* C6: copy_synapse_table returns and stores the source table's columns
\* minus the names in remove_columns, in the source's order, with the same
\* rows; with remove_columns empty the columns are the source's; and when a
\* name of remove_columns is absent at the time it is removed, the call
\* raises MissingColumn and stores nothing.
C6_CopyColumns ==
    /\ Returned("copy_synapse_table")
        => LET src == remote[args.synapse_table_id]
               kept == {j \in 1..Len(src.columns) : src.columns[j] \notin RemoveSet}
               out == result[1]
           IN /\ ColumnSet(out) = ColumnSet(src) \ RemoveSet
              /\ Len(out.columns) = Cardinality(kept)
              /\ args.remove_columns = <<>> => out.columns = src.columns
              /\ Len(out.rows) = Len(src.rows)
              /\ \A i \in 1..Len(src.rows) : \A j \in kept :
                    LET k == Cardinality({m \in kept : m <= j})
                    IN /\ out.columns[k] = src.columns[j]
                       /\ out.rows[i][k] = src.rows[i][j]
              /\ Stored.columns = out.columns
              /\ Stored.rows = out.rows
              /\ ~SomeNameAbsent
    /\ (op = "copy_synapse_table" /\ Finished /\ Queried /\ SomeNameAbsent)
        => /\ outcome = "raised"
           /\ error = "MissingColumn"
           /\ StoreCalls = {}
           /\ Len(remote) = 1

\* A copy that removed one of two columns of a table of MaxRows rows.
C6_Witness ==
    /\ Returned("copy_synapse_table")
    /\ args.remove_columns = <<"a">>
    /\ Len(result[1].rows) = MaxRows
    /\ result[1].columns = <<"b">>

\* A copy that raised MissingColumn on a name removed twice.
C6_WitnessAbsent ==
    /\ op = "copy_synapse_table" /\ Finished
    /\ args.remove_columns = <<"a", "a">>
    /\ error = "MissingColumn"

\* What C7 says of a files_to_synapse_table that returned.
C7_Final ==
    Returned("files_to_synapse_table")
    => LET N == Len(args.in_files) IN
       /\ Len(calls) = N + 3
       /\ calls[1].fn = "login"
       /\ \A i \in 1..N :
             /\ calls[i + 1].fn = "_chunkedUploadFile"
             /\ calls[i + 1].ok
             /\ calls[i + 1].path = args.in_files[i]
       /\ calls[N + 2].fn = "store" /\ calls[N + 2].kind = "Schema"
       /\ calls[N + 2].columns =
             <<[name |-> args.column_name, columnType |-> "FILEHANDLEID"]>>
       /\ calls[N + 3].fn = "store" /\ calls[N + 3].kind = "RowSet"
       /\ Len(calls[N + 3].rows) = N
       /\ \A i \in 1..N : calls[N + 3].rows[i] = <<<<"handle", calls[i + 1].id>>>>
       /\ Len(Stored.columns) = 1
       /\ Stored.columns[1] = args.column_name
       /\ Len(Stored.rows) = N
       /\ \A i \in 1..N : Stored.rows[i] = <<<<"handle", calls[i + 1].id>>>>

\* What C7 says of one step of files_to_synapse_table.
C7_UploadStep ==
    op' = "files_to_synapse_table"
    => /\ C7_Final'
       /\ \A n \in 1..Len(calls') : calls'[n].fn \notin {"tableQuery", "get"}
       /\ Len(remote') <= Len(remote) + 1
       /\ \A id \in 1..Len(remote) : id # schema.id => remote'[id] = remote[id]

\* C7: files_to_synapse_table with N paths, every upload succeeding,
\* uploads each path once in list order, then stores one schema of a single
\* file-handle column, then one row set of N rows, row i holding the handle
\* of path i; it never queries or gets a table, and no step of it changes
\* a table that existed before the call.
C7_Upload == [][C7_UploadStep]_vars

\* MaxFiles files were uploaded and the table of their handles was stored.
C7_Witness ==
    /\ Returned("files_to_synapse_table")
    /\ Len(args.in_files) = MaxFiles
    /\ Len(Stored.rows) = MaxFiles
    /\ args.in_files[1] # args.in_files[MaxFiles]

NothingUndone ==
    /\ disk \subseteq disk'
    /\ handles <= handles'
    /\ Len(remote) <= Len(remote')
    /\ \A id \in 1..Len(remote) :
          /\ remote'[id].columns = remote[id].columns
          /\ Len(remote[id].rows) <= Len(remote'[id].rows)
          /\ SubSeq(remote'[id].rows, 1, Len(remote[id].rows)) = remote[id].rows

\* What C9 says of one step of any procedure.
C9_FailFastStep ==
    /\ \A n \in 1..Len(calls') :
          ~calls'[n].ok => (n = Len(calls') /\ outcome' = "raised" /\ pc' = "idle")
    /\ outcome' = "raised" => pc' = "idle"
    /\ (outcome' = "raised" /\ outcome = "running")
          => /\ remote' = remote
             /\ disk' = disk
             /\ result' = <<>>
             /\ \/ calls' = calls
                \/ Len(calls') = Len(calls) + 1 /\ ~calls'[Len(calls')].ok
    /\ NothingUndone
    /\ remote' # remote
          => /\ Len(calls') = Len(calls) + 1
             /\ calls'[Len(calls')].fn = "store"
             /\ calls'[Len(calls')].ok
    /\ (outcome' = "raised" /\ error' = "AuthenticationError") => Len(calls') = 1
    /\ (outcome' = "raised" /\ op' = "files_to_synapse_table"
            /\ calls'[Len(calls')].fn = "_chunkedUploadFile")
          => /\ \A n \in 1..Len(calls') : calls'[n].fn # "store"
             /\ Len(remote') = 1
    /\ (outcome' = "raised" /\ error' = "MissingColumn" /\ op' = "copy_synapse_table")
          => \A n \in 1..Len(calls') : calls'[n].fn # "store"
    /\ (outcome' = "raised" /\ op' = "read_synapse_table_files")
          => \A n \in 1..Len(calls') :
                (calls'[n].fn = "downloadTableFile" /\ calls'[n].ok
                    /\ calls'[n].fileinfo # <<>>) => calls'[n].fileinfo \in disk'

\* C9: the first failing step ends the procedure at once: a failed call is
\* the last call of the procedure and the procedure has raised; the step
\* that raises changes no table and no file, returns no result and leaves
\* the procedure; no step undoes a table, a row or a file.
\* So a failed login is the only call; a failed upload is followed by no
\* store and no table is created; a missing column in copy_synapse_table
\* is followed by no store; and the files downloaded before a failed
\* download stay in the output directory.
C9_FailFast == [][C9_FailFastStep]_vars

\* A download failed after another had written its file.
C9_Witness ==
    /\ op = "read_synapse_table_files"
    /\ outcome = "raised"
    /\ error = "TransferError"
    /\ disk # {}
    /\ ~calls[Len(calls)].ok

LoginCalls == {n \in 1..Len(calls) : calls[n].fn = "login"}

\* C10: every procedure issues exactly one login call, its first call, on
\* a session created for the call and not yet logged in; the login carries
\* the username and password when both are non-empty and is the cached
\* login otherwise.
C10_OneLoginFirst ==
    /\ pc = "login" => (calls = <<>> /\ ~syn.loggedIn /\ outcome = "running")
    /\ (outcome # "idle" /\ pc # "login")
          => /\ LoginCalls = {1}
             /\ calls[1].mode = "credentials"
                  <=> (args.username # "" /\ args.password # "")
             /\ calls[1].mode = "cached"
                  <=> (args.username = "" \/ args.password = "")
             /\ calls[1].ok <=> syn.loggedIn
             /\ syn.loggedIn => syn.mode = calls[1].mode

\* A procedure went on after a cached login although a username was given.
C10_Witness ==
    /\ outcome = "returned"
    /\ args.username # "" /\ args.password = ""
    /\ calls[1].mode = "cached"

====
